---- MODULE Spec2Model ----
(***************************************************************************)
(* Model of the Zoho campaign report generator: the KPI functions of       *)
(* analysis.py, the narrative generator of openai_integration.py, the      *)
(* slide builders of visualization.py and the pipeline of main.py.         *)
(*                                                                         *)
(* Python floats are modelled as exact rationals [n, d] in lowest terms;   *)
(* None is the empty tuple and a present value x is <<x>>.                 *)
(***************************************************************************)
EXTENDS Integers, Sequences, FiniteSets, TLC

VARIABLES
  df,          \* main: the table read from the CSV file, [cols, rows]
  summary_df,  \* main: the summary table, None before create_summary_table
  df_rates,    \* main: the table with rate columns, None before compute_rate_columns
  raised,      \* the exception that left the running function, None when none did
  client,      \* the OpenAI client: TRUE when configured, FALSE for None
  reqs,        \* history: the narrative requests made so far
  texts,       \* history: the text each request returned
  calls,       \* history: per request, the client.responses.create calls it made
  csv,         \* the input file: whether pd.read_csv can read it, and its table
  OPENAI_API_KEY, \* main.OPENAI_API_KEY: "" when unset or empty
  pc,          \* main: the statement to run next
  dropped,     \* main: the columns dropped
  note,        \* main: the note about the dropped columns
  pdf,         \* the pages saved to the PdfPages document
  opens,       \* history: how many times the document was opened
  closed_at,   \* history: the page count at each close of the document
  SLIDE_NUMBER, \* utils.SLIDE_NUMBER
  trace,       \* history: the pipeline events so far
  stamps,      \* history: the numbers add_slide_number wrote, over the whole process
  saved,       \* history: the numbers on the pages appended, over the whole process
  runs         \* history: the calls of main that came before this one

kpiState == <<df, summary_df, df_rates, raised>>
genState == <<client, reqs, texts, calls>>
mainState ==
  <<csv, OPENAI_API_KEY, pc, dropped, note, pdf, opens, closed_at, SLIDE_NUMBER, trace,
    stamps, saved, runs>>
vars == <<kpiState, genState, mainState>>

None == <<>>
Some(x) == <<x>>

\* a text: its fixed wording and the parts interpolated into it
StaticText(lit) == [lit |-> lit, parts |-> <<>>]
\* a position in main; metric is the loop index inside the histogram loop
P(step) == [step |-> step, metric |-> 0]
EmptyTable == [cols |-> {}, rows |-> <<>>]
\* utils.SLIDE_NUMBER at import
FirstSlideNumber == 1

\* main is not running: used where a function is exercised on its own
MainIdle ==
  /\ csv = [readable |-> FALSE, table |-> EmptyTable]
  /\ OPENAI_API_KEY = ""
  /\ pc = P("idle")
  /\ dropped = <<>>
  /\ note = StaticText("")
  /\ pdf = <<>>
  /\ opens = 0
  /\ closed_at = <<>>
  /\ SLIDE_NUMBER = FirstSlideNumber
  /\ trace = <<>>
  /\ stamps = <<>> /\ saved = <<>> /\ runs = 0

(* ---------------------------- bounds ----------------------------------- *)
\* most rows of a data set drawn for the KPI functions
MaxRows == 2
\* most events counted in one data set drawn for the KPI functions
MaxSum == 3
\* most narrative requests made of the narrative generator on its own
MaxRequests == 2
\* number of distinct data descriptions those requests choose from
MaxCtx == 1
\* most rows of the input file of a pipeline run
PipeRows == 2
\* most external calls that fail during one pipeline run
MaxFail == 2

(* ---------------------------- columns ---------------------------------- *)
\* the counter columns, in the order compute_rate_columns first reads them
CounterOrder == <<"Sent", "Delivered", "Opened", "Clicked", "Bounced", "Unsubscribes">>
Counters == {CounterOrder[i] : i \in 1..Len(CounterOrder)}

\* the rate columns: name, numerator column, denominator column
RateDefs ==
  << [rate |-> "Delivery Rate",    num |-> "Delivered",    den |-> "Sent"],
     [rate |-> "Open Rate",        num |-> "Opened",       den |-> "Delivered"],
     [rate |-> "Click Rate",       num |-> "Clicked",      den |-> "Delivered"],
     [rate |-> "Bounce Rate",      num |-> "Bounced",      den |-> "Sent"],
     [rate |-> "Unsubscribe Rate", num |-> "Unsubscribes", den |-> "Sent"] >>
RateNames == {RateDefs[i].rate : i \in 1..Len(RateDefs)}

(* ---------------------------- arithmetic ------------------------------- *)
RECURSIVE Gcd(_, _)
Gcd(a, b) == IF b = 0 THEN a ELSE Gcd(b, a % b)

\* the rational n/d (d > 0) in lowest terms
Frac(n, d) == LET g == Gcd(n, d) IN [n |-> n \div g, d |-> d \div g]
Zero == [n |-> 0, d |-> 1]

\* np.where(den > 0, num / den * 100, 0), and the scalar form of it
RateClamped(num, den) ==
  IF den > 0 THEN (IF num > den THEN Frac(100, 1) ELSE Frac(num * 100, den)) ELSE Zero
Rate(num, den) == IF den > 0 THEN Frac(num * 100, den) ELSE Zero

\* f"{q:.2f}": q in hundredths, rounded to nearest, ties to even
Fmt2(q) ==
  LET x  == q.n * 100
      fl == x \div q.d
      rm == x % q.d
  IN  IF 2 * rm > q.d THEN fl + 1
      ELSE IF 2 * rm < q.d THEN fl
      ELSE IF fl % 2 = 0 THEN fl ELSE fl + 1

(* ---------------------------- analysis.py ------------------------------ *)
\* df[col].sum()
RECURSIVE ColumnSum(_, _)
ColumnSum(rows, col) ==
  IF rows = <<>> THEN 0 ELSE Head(rows)[col] + ColumnSum(Tail(rows), col)

\* df[col].sum() if col in df.columns else 0
Total(d, col) == IF col \in d.cols THEN ColumnSum(d.rows, col) ELSE 0

IntValue(v) == [kind |-> "int", v |-> v]
PctValue(q) == [kind |-> "pct", v |-> Fmt2(q)]

\* the rate of the mean-of-rows kind: not what the code computes
RECURSIVE RateSum(_, _, _)
RateSum(rows, num, den) ==
  IF rows = <<>> THEN Zero
  ELSE LET r == Rate(Head(rows)[num], Head(rows)[den])
           s == RateSum(Tail(rows), num, den)
       IN  Frac(r.n * s.d + s.n * r.d, r.d * s.d)
MeanRate(d, num, den) ==
  IF num \in d.cols /\ den \in d.cols /\ Len(d.rows) > 0
  THEN LET s == RateSum(d.rows, num, den) IN Frac(s.n, s.d * Len(d.rows))
  ELSE Zero
AggregateRateAsMean(d, num, den) == MeanRate(d, num, den)

\* the aggregate rate of create_summary_table: from the two totals
AggregateRate(d, num, den) == Rate(Total(d, num), Total(d, den))

create_summary_table(d) ==
  << [Metric |-> "Sent", Value |-> IntValue(Total(d, "Sent")),
      Description |-> "Total emails sent"],
     [Metric |-> "Delivered", Value |-> IntValue(Total(d, "Delivered")),
      Description |-> "Emails delivered to inbox"],
     [Metric |-> "Delivery Rate", Value |-> PctValue(AggregateRate(d, "Delivered", "Sent")),
      Description |-> "Percentage of sent emails delivered"],
     [Metric |-> "Opened", Value |-> IntValue(Total(d, "Opened")),
      Description |-> "Total emails opened"],
     [Metric |-> "Open Rate", Value |-> PctValue(AggregateRate(d, "Opened", "Delivered")),
      Description |-> "Percentage of delivered emails opened"],
     [Metric |-> "Clicked", Value |-> IntValue(Total(d, "Clicked")),
      Description |-> "Emails with clicks"],
     [Metric |-> "Click Rate", Value |-> PctValue(AggregateRate(d, "Clicked", "Delivered")),
      Description |-> "Percentage of delivered emails clicked"],
     [Metric |-> "Bounced", Value |-> IntValue(Total(d, "Bounced")),
      Description |-> "Emails that bounced"],
     [Metric |-> "Bounce Rate", Value |-> PctValue(AggregateRate(d, "Bounced", "Sent")),
      Description |-> "Percentage of sent emails bounced"],
     [Metric |-> "Unsubscribes", Value |-> IntValue(Total(d, "Unsubscribes")),
      Description |-> "Total unsubscribes"],
     [Metric |-> "Unsubscribe Rate",
      Value |-> PctValue(AggregateRate(d, "Unsubscribes", "Sent")),
      Description |-> "Percentage of sent emails unsubscribed"] >>

\* the first counter column that df[...] does not find, 0 when all are there
RECURSIVE FirstMissing(_, _)
FirstMissing(cols, i) ==
  IF i > Len(CounterOrder) THEN 0
  ELSE IF CounterOrder[i] \notin cols THEN i ELSE FirstMissing(cols, i + 1)

\* one row with its five rate columns added
RateRowWrongDenominator(row) ==
  [c \in DOMAIN row \cup RateNames |->
     IF c \in DOMAIN row THEN row[c]
     ELSE LET rd == CHOOSE x \in {RateDefs[i] : i \in 1..Len(RateDefs)} : x.rate = c
          IN  Rate(row[rd.num], row["Sent"])]
RateRow(row) ==
  [c \in DOMAIN row \cup RateNames |->
     IF c \in DOMAIN row THEN row[c]
     ELSE LET rd == CHOOSE x \in {RateDefs[i] : i \in 1..Len(RateDefs)} : x.rate = c
          IN  Rate(row[rd.num], row[rd.den])]

\* compute_rate_columns: the copy with the rate columns, or the KeyError of
\* the first df[...] on a column that is absent
compute_rate_columns(d) ==
  LET m == FirstMissing(d.cols, 1)
  IN  IF m # 0
      THEN [raised |-> Some([exc |-> "KeyError", arg |-> CounterOrder[m]]), value |-> None]
      ELSE [raised |-> None,
            value  |-> Some([cols |-> d.cols \cup RateNames,
                             rows |-> [i \in 1..Len(d.rows) |-> RateRow(d.rows[i])]])]

(* ---------------------------- data sets -------------------------------- *)
RECURSIVE RowSum(_, _)
RowSum(row, cs) ==
  IF cs = {} THEN 0
  ELSE LET c == CHOOSE x \in cs : TRUE IN row[c] + RowSum(row, cs \ {c})

\* the rows over the columns cs that count at most budget events
RECURSIVE RowsOver(_, _)
RowsOver(cs, budget) ==
  IF cs = {} THEN {<<>>}
  ELSE LET c == CHOOSE x \in cs : TRUE
       IN  UNION {{(c :> k) @@ r : r \in RowsOver(cs \ {c}, budget - k)} : k \in 0..budget}

\* the tables of exactly n rows over cs that count at most budget events
RECURSIVE TablesOver(_, _, _)
TablesOver(cs, n, budget) ==
  IF n = 0 THEN {<<>>}
  ELSE UNION {{<<r>> \o t : t \in TablesOver(cs, n - 1, budget - RowSum(r, cs))} :
              r \in RowsOver(cs, budget)}

\* the data sets over the column set cs: at most MaxRows rows, MaxSum events
DataSets(cs) ==
  UNION {{[cols |-> cs, rows |-> t] : t \in TablesOver(cs, n, MaxSum)} : n \in 0..MaxRows}

(* ---------------------------- KPI functions ---------------------------- *)
KpiInit ==
  /\ \E cs \in SUBSET Counters : df \in DataSets(cs)
  /\ summary_df = None
  /\ df_rates = None
  /\ raised = None
  /\ client = FALSE /\ reqs = <<>> /\ texts = <<>> /\ calls = <<>>
  /\ MainIdle

KpiSummary ==
  /\ summary_df = None
  /\ summary_df' = Some(create_summary_table(df))
  /\ UNCHANGED <<df, df_rates, raised, genState, mainState>>

KpiRates ==
  /\ df_rates = None /\ raised = None
  /\ LET res == compute_rate_columns(df)
     IN  /\ df_rates' = res.value
         /\ raised' = res.raised
  /\ UNCHANGED <<df, summary_df, genState, mainState>>

KpiNext == KpiSummary \/ KpiRates

SpecKpi == KpiInit /\ [][KpiNext]_vars

(* ---------------------------- C1 --------------------------------------- *)
\* the events counted in column col: one per row and unit, counted as a set
Events(d, col) ==
  IF col \in d.cols
  THEN Cardinality({<<i, k>> \in (1..Len(d.rows)) \X (1..MaxSum) : k <= d.rows[i][col]})
  ELSE 0

RateDefSet == {RateDefs[i] : i \in 1..Len(RateDefs)}

\* C1: with all six counters present, compute_rate_columns raises nothing and
\* gives every record, for each of the five rates, numerator/denominator*100
\* when the denominator is above 0 and exactly 0 when it is 0; a numerator
\* above its denominator gives a rate above 100, not clamped.
C1_RatePerRecord ==
  (Counters \subseteq df.cols /\ (df_rates # None \/ raised # None)) =>
    /\ raised = None
    /\ df_rates # None
    /\ Len(df_rates[1].rows) = Len(df.rows)
    /\ \A i \in 1..Len(df.rows) : \A rd \in RateDefSet :
         LET num == df.rows[i][rd.num]
             den == df.rows[i][rd.den]
             q   == df_rates[1].rows[i][rd.rate]
         IN  /\ q.d > 0
             /\ den > 0 => q.n * den = num * 100 * q.d
             /\ den = 0 => q.n = 0
             /\ (den > 0 /\ num > den) => q.n > 100 * q.d

\* a record with Sent = 0 and more opens than deliveries has had its rates computed
C1_Witness ==
  /\ df_rates # None
  /\ \E i \in 1..Len(df.rows) :
       /\ df.rows[i]["Sent"] = 0
       /\ df.rows[i]["Delivered"] > 0
       /\ df.rows[i]["Opened"] > df.rows[i]["Delivered"]
       /\ df_rates[1].rows[i]["Delivery Rate"] = Zero
       /\ df_rates[1].rows[i]["Open Rate"].n > 100

(* ---------------------------- C2 --------------------------------------- *)
SummaryValue(s, m) == (CHOOSE r \in {s[i] : i \in 1..Len(s)} : r.Metric = m).Value

\* C2: create_summary_table reports each total as the sum of its column over
\* all records (0 for an absent column) and each aggregate rate as the ratio
\* of the two sums times 100, shown to the nearest hundredth (0 when the
\* denominator sum is 0), not as the mean of the per-record rates.
C2_SummaryFromSums ==
  summary_df # None =>
    /\ \A c \in Counters : SummaryValue(summary_df[1], c) = IntValue(Events(df, c))
    /\ \A rd \in RateDefSet :
         LET n == Events(df, rd.num)
             d == Events(df, rd.den)
             v == SummaryValue(summary_df[1], rd.rate)
             e == v.v * d - n * 10000
         IN  /\ v.kind = "pct"
             /\ d = 0 => v.v = 0
             /\ d > 0 => (2 * e <= d /\ 2 * (0 - e) <= d)

\* a summary of two records over a proper subset of the counters, whose
\* delivery rate is not the mean of the two records' delivery rates
C2_Witness ==
  /\ summary_df # None
  /\ Len(df.rows) = 2
  /\ "Opened" \notin df.cols
  /\ {"Sent", "Delivered"} \subseteq df.cols
  /\ SummaryValue(summary_df[1], "Opened") = IntValue(0)
  /\ SummaryValue(summary_df[1], "Delivery Rate").v
       # Fmt2(MeanRate(df, "Delivered", "Sent"))

(* ---------------------------- utils.py --------------------------------- *)
\* the values OPENAI_API_KEY can have: unset or empty, or a key
ApiKeys == {"", "sk-key"}

\* main.py imports openai before anything runs: the module is never None
OpenAIModule == Some("openai")

\* a client whatever the key: not what the code does
init_client_always(openai_module, api_key) == TRUE

\* init_openai_client: None without the module or the key, else a client
init_openai_client(openai_module, api_key) ==
  IF openai_module = None \/ api_key = "" THEN FALSE ELSE TRUE

(* ---------------------------- openai_integration.py -------------------- *)
\* the chart types the slide builders pass to generate_full_explanation
HistogramType ==
  [m \in RateNames |->
     CASE m = "Delivery Rate"    -> "Histogram for Delivery Rate"
       [] m = "Open Rate"        -> "Histogram for Open Rate"
       [] m = "Click Rate"       -> "Histogram for Click Rate"
       [] m = "Bounce Rate"      -> "Histogram for Bounce Rate"
       [] m = "Unsubscribe Rate" -> "Histogram for Unsubscribe Rate"]
ChartTypes == {"Heatmap"} \cup {HistogramType[m] : m \in RateNames}

\* a prompt: the template (part), what is interpolated into it, and whether
\* the call carries the web_search_preview tool
Prompt(part, data_description, chart_type, tools, embedded) ==
  [part |-> part, data_description |-> data_description, chart_type |-> chart_type,
   tools |-> tools, embedded |-> embedded]

\* response.output_text.strip(): an opaque text, known by the prompt it answers
ReplyText(prompt) == [kind |-> "reply", part |-> prompt.part, to |-> Some(prompt)]
\* f"Error in '<part>': {e}"
ErrorText(part) == [kind |-> "error", part |-> part, to |-> None]

\* one client.responses.create call inside its try/except
Call(prompt, ok) == [prompt |-> prompt, ok |-> ok]
TextOf(prompt, ok) == IF ok THEN ReplyText(prompt) ELSE ErrorText(prompt.part)

NoExplanation ==
  [lit |-> "AI client not available. No explanation generated.", parts |-> <<>>]

\* a generator that gives up at the first failing call: not what the code does
generate_until_failure(cl, data_description, chart_type, out) ==
  IF ~cl THEN [text |-> NoExplanation, calls |-> <<>>]
  ELSE
    LET why_prompt == Prompt("Why this chart matters", data_description, chart_type,
                             FALSE, None)
        industry_prompt == Prompt("Industry Standards", data_description, chart_type,
                                  TRUE, None)
        industry_text == TextOf(industry_prompt, out[1] /\ out[2])
        insights_prompt == Prompt("AI Insights", data_description, chart_type,
                                  FALSE, Some(industry_text))
        all == << Call(why_prompt, out[1]), Call(industry_prompt, out[2]),
                  Call(insights_prompt, out[3]) >>
        n == IF ~out[1] THEN 1 ELSE IF ~out[2] THEN 2 ELSE 3
    IN  [text  |-> [lit |-> "Why this chart matters: / Industry Standards: / AI Insights:",
                    parts |-> << TextOf(why_prompt, out[1]), industry_text,
                                 TextOf(insights_prompt, out[1] /\ out[2] /\ out[3]) >>],
         calls |-> SubSeq(all, 1, n)]

\* generate_full_explanation; out[i] tells whether the i-th call succeeds
generate_full_explanation(cl, data_description, chart_type, out) ==
  IF ~cl THEN [text |-> NoExplanation, calls |-> <<>>]
  ELSE
    LET why_prompt == Prompt("Why this chart matters", data_description, chart_type,
                             FALSE, None)
        why_text == TextOf(why_prompt, out[1])
        industry_prompt == Prompt("Industry Standards", data_description, chart_type,
                                  TRUE, None)
        industry_text == TextOf(industry_prompt, out[2])
        insights_prompt == Prompt("AI Insights", data_description, chart_type,
                                  FALSE, Some(industry_text))
        insights_text == TextOf(insights_prompt, out[3])
    IN  [text  |-> [lit |-> "Why this chart matters: / Industry Standards: / AI Insights:",
                    parts |-> <<why_text, industry_text, insights_text>>],
         calls |-> << Call(why_prompt, out[1]), Call(industry_prompt, out[2]),
                      Call(insights_prompt, out[3]) >>]

(* ---------------------------- visualization.py: conclusion text -------- *)
NoConclusion ==
  [lit |-> "AI client not available. No overall conclusion generated.", parts |-> <<>>]

\* create_overall_conclusion, up to final_conclusion
overall_conclusion(cl, raw_summary, out) ==
  IF ~cl THEN [text |-> NoConclusion, calls |-> <<>>]
  ELSE
    LET prompt == Prompt("initial AI call", raw_summary, "", FALSE, None)
        initial_conclusion == TextOf(prompt, out[1])
        corroboration_prompt == Prompt("corroboration AI call", None, "", TRUE,
                                       Some(initial_conclusion))
        corroboration_text == TextOf(corroboration_prompt, out[2])
    IN  [text  |-> [lit |-> "", parts |-> <<initial_conclusion, corroboration_text>>],
         calls |-> << Call(prompt, out[1]), Call(corroboration_prompt, out[2]) >>]

(* ---------------------------- the narrative generator on its own ------- *)
Contexts == 1..MaxCtx

GenInit ==
  /\ client \in {init_openai_client(OpenAIModule, k) : k \in ApiKeys}
  /\ reqs = <<>> /\ texts = <<>> /\ calls = <<>>
  /\ df = EmptyTable
  /\ summary_df = None /\ df_rates = None /\ raised = None
  /\ MainIdle

\* one call of generate_full_explanation(client, ctx, ct)
GenExplain ==
  /\ Len(reqs) < MaxRequests
  /\ \E ctx \in Contexts, ct \in ChartTypes, out \in [1..3 -> BOOLEAN] :
       LET res == generate_full_explanation(client, Some(ctx), ct, out)
       IN  /\ reqs' = Append(reqs, [fn |-> "explain", ctx |-> Some(ctx), ct |-> ct])
           /\ texts' = Append(texts, res.text)
           /\ calls' = Append(calls, res.calls)
  /\ UNCHANGED <<client, kpiState, mainState>>

\* one run of the text part of create_overall_conclusion(summary_df, pdf, client)
GenConclude ==
  /\ Len(reqs) < MaxRequests
  /\ \E ctx \in Contexts, out \in [1..2 -> BOOLEAN] :
       LET res == overall_conclusion(client, Some(ctx), out)
       IN  /\ reqs' = Append(reqs, [fn |-> "conclude", ctx |-> Some(ctx), ct |-> ""])
           /\ texts' = Append(texts, res.text)
           /\ calls' = Append(calls, res.calls)
  /\ UNCHANGED <<client, kpiState, mainState>>

GenNext == GenExplain \/ GenConclude

SpecGen == GenInit /\ [][GenNext]_vars

(* ---------------------------- C3 --------------------------------------- *)
\* C3: of two requests for an explanation with the same (context, chart
\* type), the later one makes no external call and returns the text of the
\* earlier one.
C3_SecondRequestFromCache ==
  \A i, j \in 1..Len(reqs) :
    (i < j /\ reqs[i].fn = "explain" /\ reqs[i] = reqs[j]) =>
      (calls[j] = <<>> /\ texts[j] = texts[i])

(* ---------------------------- C7 --------------------------------------- *)
ExplainParts == <<"Why this chart matters", "Industry Standards", "AI Insights">>
ConcludeParts == <<"initial AI call", "corroboration AI call">>

\* the calls of request i are one per part, in the order of parts, and each
\* part of the returned text is the reply of its own call, or the inline
\* error of its own part when that call failed
PartsInOrder(i, parts) ==
  /\ Len(calls[i]) = Len(parts)
  /\ Len(texts[i].parts) = Len(parts)
  /\ \A p \in 1..Len(parts) :
       /\ calls[i][p].prompt.part = parts[p]
       /\ texts[i].parts[p] =
            IF calls[i][p].ok
            THEN [kind |-> "reply", part |-> parts[p], to |-> Some(calls[i][p].prompt)]
            ELSE [kind |-> "error", part |-> parts[p], to |-> None]

\* C7 (amended): with a client, every request attempts all its parts in
\* order whatever fails, a failing call turns only its own part into an
\* inline error, and every request returns a text; the rationale and the
\* benchmark prompts carry only the request's context and chart type, while
\* the insight prompt (and the corroboration prompt of the conclusion)
\* carries the text of the part before it, its inline error included.
C7_PartsDegradeAlone ==
  /\ Len(texts) = Len(reqs) /\ Len(calls) = Len(reqs)
  /\ raised = None
  /\ client =>
       \A i \in 1..Len(reqs) :
         IF reqs[i].fn = "explain"
         THEN /\ PartsInOrder(i, ExplainParts)
              /\ \A p \in 1..3 :
                   /\ calls[i][p].prompt.data_description = reqs[i].ctx
                   /\ calls[i][p].prompt.chart_type = reqs[i].ct
              /\ calls[i][1].prompt.embedded = None
              /\ calls[i][2].prompt.embedded = None
              /\ calls[i][3].prompt.embedded = Some(texts[i].parts[2])
         ELSE /\ PartsInOrder(i, ConcludeParts)
              /\ calls[i][1].prompt.data_description = reqs[i].ctx
              /\ calls[i][1].prompt.embedded = None
              /\ calls[i][2].prompt.embedded = Some(texts[i].parts[1])

\* an explanation whose benchmark call failed while the other two succeeded
C7_Witness ==
  /\ client
  /\ \E i \in 1..Len(reqs) :
       /\ reqs[i].fn = "explain"
       /\ calls[i][1].ok /\ ~calls[i][2].ok /\ calls[i][3].ok
       /\ texts[i].parts[2].kind = "error"
       /\ texts[i].parts[1].kind = "reply" /\ texts[i].parts[3].kind = "reply"

\* C7 as stated: what a succeeding call is asked never depends on the failure
\* of another part, so no prompt of a succeeding call carries an inline error
C7_SucceededPartsIndependent ==
  \A i \in 1..Len(reqs) : \A p \in 1..Len(calls[i]) :
    calls[i][p].ok =>
      (calls[i][p].prompt.embedded = None
       \/ calls[i][p].prompt.embedded[1].kind # "error")

(* ---------------------------- main.py ---------------------------------- *)
\* cols_to_drop
cols_to_drop == <<"Forwards", "Marked as spam">>
Denylist == {cols_to_drop[i] : i \in 1..Len(cols_to_drop)}
\* a column the program has no use for
OtherColumns == {"Campaign Name"}
AllColumns == Counters \cup Denylist \cup OtherColumns

\* the rows of the input files drawn: a campaign with traffic, then one
\* with nothing sent, and so on in turn
SampleRow(i) ==
  IF i % 2 = 1
  THEN [c \in AllColumns |->
          CASE c = "Sent" -> 100 [] c = "Delivered" -> 90 [] c = "Opened" -> 40
            [] c = "Clicked" -> 10 [] c = "Bounced" -> 10 [] c = "Unsubscribes" -> 2
            [] c = "Forwards" -> 1 [] c = "Marked as spam" -> 0 [] OTHER -> i]
  ELSE [c \in AllColumns |-> IF c \in OtherColumns THEN i ELSE 0]

InputTables ==
  {[cols |-> cs, rows |-> [i \in 1..n |-> [c \in cs |-> SampleRow(i)[c]]]] :
     cs \in SUBSET AllColumns, n \in 0..PipeRows}

\* df.drop(columns=[col], inplace=True)
DropColumn(d, col) ==
  [cols |-> d.cols \ {col},
   rows |-> [i \in 1..Len(d.rows) |-> [c \in d.cols \ {col} |-> d.rows[i][c]]]]

\* the loop over cols_to_drop, from its i-th element on
RECURSIVE DropLoopFirstOnly(_, _, _)
DropLoopFirstOnly(d, dr, i) ==
  IF i > Len(cols_to_drop) \/ dr # <<>> THEN [df |-> d, dropped |-> dr]
  ELSE IF cols_to_drop[i] \in d.cols
       THEN DropLoopFirstOnly(DropColumn(d, cols_to_drop[i]), Append(dr, cols_to_drop[i]), i + 1)
       ELSE DropLoopFirstOnly(d, dr, i + 1)
RECURSIVE DropLoop(_, _, _)
DropLoop(d, dr, i) ==
  IF i > Len(cols_to_drop) THEN [df |-> d, dropped |-> dr]
  ELSE IF cols_to_drop[i] \in d.cols
       THEN DropLoop(DropColumn(d, cols_to_drop[i]), Append(dr, cols_to_drop[i]), i + 1)
       ELSE DropLoop(d, dr, i + 1)

\* the note: names ', '.join(dropped), or says that nothing was dropped
NoteFor(dr) ==
  IF dr # <<>>
  THEN [lit |-> "Note: The following metrics were dropped due to negligible impact:",
        parts |-> dr]
  ELSE StaticText("Note: No negligible metrics were dropped.")

\* the metrics of the histogram loop
HistMetricsSwapped ==
  <<"Open Rate", "Delivery Rate", "Click Rate", "Bounce Rate", "Unsubscribe Rate">>
HistMetrics ==
  <<"Delivery Rate", "Open Rate", "Click Rate", "Bounce Rate", "Unsubscribe Rate">>

\* the statements of main in program order
MainOrderKpisFirst ==
  << P("init_client"), P("read_csv"), P("drop_columns"), P("open_pdf"),
     P("summary_table"), P("rate_columns"),
     P("title"), P("definitions"), P("note"), P("summary_slide"),
     P("heatmap_chart"), P("heatmap_text") >>
  \o [k \in 1..(2 * Len(HistMetrics)) |->
        [step |-> IF k % 2 = 1 THEN "hist_chart" ELSE "hist_text", metric |-> (k + 1) \div 2]]
  \o << P("conclusion"), P("close_pdf"), P("done") >>
MainOrder ==
  << P("init_client"), P("read_csv"), P("drop_columns"), P("open_pdf"),
     P("title"), P("definitions"), P("note"), P("summary_table"), P("summary_slide"),
     P("rate_columns"), P("heatmap_chart"), P("heatmap_text") >>
  \o [k \in 1..(2 * Len(HistMetrics)) |->
        [step |-> IF k % 2 = 1 THEN "hist_chart" ELSE "hist_text", metric |-> (k + 1) \div 2]]
  \o << P("conclusion"), P("close_pdf"), P("done") >>

\* the statement after p
Follow(p) == MainOrder[(CHOOSE k \in 1..Len(MainOrder) : MainOrder[k] = p) + 1]

\* the statements inside the with block
BodySteps ==
  {"title", "definitions", "note", "summary_table", "summary_slide", "rate_columns",
   "heatmap_chart", "heatmap_text", "hist_chart", "hist_text", "conclusion"}

\* PdfPages.__exit__ when an exception leaves the with block: the document is closed
LeaveOpenOnException(ca, pages) == ca
ExitOnException(ca, pages) == Append(ca, Len(pages))

(* ---------------------------- slides ----------------------------------- *)
\* a counter that stays where it is: not what the code does
add_slide_number_stuck(n) == n
\* add_slide_number: SLIDE_NUMBER += 1, after the figure got the number n
add_slide_number(n) == n + 1

\* the statements that end in add_slide_number(fig); pdf.savefig(fig)
SlideSteps ==
  {"title", "definitions", "note", "summary_slide", "heatmap_chart", "heatmap_text",
   "hist_chart", "hist_text", "conclusion"}

\* add_slide_number(fig); pdf.savefig(fig): the page carries the current
\* slide number, the counter moves on, the page is appended
SaveSlide(subject, kind, text, data) ==
  /\ pdf' = Append(pdf, [subject |-> subject, kind |-> kind, number |-> SLIDE_NUMBER,
                         text |-> text, data |-> data])
  /\ SLIDE_NUMBER' = add_slide_number(SLIDE_NUMBER)
  /\ stamps' = Append(stamps, SLIDE_NUMBER)
  /\ saved' = Append(saved, SLIDE_NUMBER)
  /\ trace' = Append(trace, "Slide")

\* the five rate columns of a table with rates
RateColumns(t) == [i \in 1..Len(t.rows) |-> [c \in RateNames |-> t.rows[i][c]]]
\* f"Correlation Data:\n{corr.to_string()}": a function of the rate columns
CorrelationData(t) == Some([label |-> "Correlation Data", rows |-> RateColumns(t)])
\* f"Distribution Summary for {metric}:\n{describe().to_string()}": a function of one column
DistributionSummary(t, metric) ==
  Some([label |-> "Distribution Summary", metric |-> metric,
        rows |-> [i \in 1..Len(t.rows) |-> t.rows[i][metric]]])

\* the external calls that have failed so far
RECURSIVE Failed(_)
Failed(cs) ==
  IF cs = <<>> THEN 0
  ELSE Cardinality({k \in 1..Len(Head(cs)) : ~Head(cs)[k].ok}) + Failed(Tail(cs))

\* the outcomes of the next n external calls: any, with at most MaxFail
\* failures in the run; without a client there is no call to fail
Outcomes(n) ==
  {out \in [1..n -> BOOLEAN] :
     IF client
     THEN Failed(calls) + Cardinality({k \in 1..n : ~out[k]}) <= MaxFail
     ELSE \A k \in 1..n : out[k]}

\* a narrative was asked for and came back
Narrated(fn, ctx, ct, res) ==
  /\ reqs' = Append(reqs, [fn |-> fn, ctx |-> ctx, ct |-> ct])
  /\ texts' = Append(texts, res.text)
  /\ calls' = Append(calls, res.calls)

(* ---------------------------- the pipeline ----------------------------- *)
MainInit ==
  /\ csv \in {[readable |-> TRUE, table |-> t] : t \in InputTables}
             \cup {[readable |-> FALSE, table |-> EmptyTable]}
  /\ OPENAI_API_KEY \in ApiKeys
  /\ pc = MainOrder[1]
  /\ df = EmptyTable /\ summary_df = None /\ df_rates = None /\ raised = None
  /\ client = FALSE /\ reqs = <<>> /\ texts = <<>> /\ calls = <<>>
  /\ dropped = <<>> /\ note = StaticText("")
  /\ pdf = <<>> /\ opens = 0 /\ closed_at = <<>>
  /\ SLIDE_NUMBER = FirstSlideNumber
  /\ trace = <<>>
  /\ stamps = <<>> /\ saved = <<>> /\ runs = 0

\* client = utils.init_openai_client(openai, OPENAI_API_KEY)
InitClient ==
  /\ pc = P("init_client")
  /\ client' = init_openai_client(OpenAIModule, OPENAI_API_KEY)
  /\ pc' = Follow(pc)
  /\ UNCHANGED <<kpiState, reqs, texts, calls, csv, OPENAI_API_KEY, dropped, note, pdf,
                 opens, closed_at, SLIDE_NUMBER,
                 stamps, saved, runs, trace>>

\* df = pd.read_csv(args.file), or the return on its exception
ReadCsv ==
  /\ pc = P("read_csv")
  /\ IF csv.readable
     THEN /\ df' = csv.table
          /\ trace' = Append(trace, "Loaded")
          /\ pc' = Follow(pc)
     ELSE /\ pc' = P("returned")
          /\ UNCHANGED <<df, trace>>
  /\ UNCHANGED <<summary_df, df_rates, raised, genState, csv, OPENAI_API_KEY, dropped, note,
                 pdf, opens, closed_at, SLIDE_NUMBER,
                 stamps, saved, runs>>

\* the loop over cols_to_drop and the note
DropColumns ==
  /\ pc = P("drop_columns")
  /\ LET res == DropLoop(df, <<>>, 1)
     IN  /\ df' = res.df
         /\ dropped' = res.dropped
         /\ note' = NoteFor(res.dropped)
  /\ trace' = Append(trace, "ColumnsNormalized")
  /\ pc' = Follow(pc)
  /\ UNCHANGED <<summary_df, df_rates, raised, genState, csv, OPENAI_API_KEY, pdf, opens,
                 closed_at, SLIDE_NUMBER,
                 stamps, saved, runs>>

\* with PdfPages(args.output) as pdf:
OpenPdf ==
  /\ pc = P("open_pdf")
  /\ opens' = opens + 1
  /\ pc' = Follow(pc)
  /\ UNCHANGED <<kpiState, genState, csv, OPENAI_API_KEY, dropped, note, pdf, closed_at,
                 SLIDE_NUMBER,
                 stamps, saved, runs, trace>>

TitleSlide ==
  /\ pc = P("title")
  /\ SaveSlide("title", "slide", StaticText("Zoho Campaign Performance"), None)
  /\ pc' = Follow(pc)
  /\ UNCHANGED <<kpiState, genState, csv, OPENAI_API_KEY, dropped, note, opens, closed_at,
                 runs>>

\* visualization.create_definitions_slide(pdf)
DefinitionsSlide ==
  /\ pc = P("definitions")
  /\ SaveSlide("definitions", "slide", StaticText("Definitions:"), None)
  /\ pc' = Follow(pc)
  /\ UNCHANGED <<kpiState, genState, csv, OPENAI_API_KEY, dropped, note, opens, closed_at,
                 runs>>

NoteSlide ==
  /\ pc = P("note")
  /\ SaveSlide("dropped-columns note", "slide", note, None)
  /\ pc' = Follow(pc)
  /\ UNCHANGED <<kpiState, genState, csv, OPENAI_API_KEY, dropped, note, opens, closed_at,
                 runs>>

\* summary_df = analysis.create_summary_table(df)
SummaryTable ==
  /\ pc = P("summary_table")
  /\ summary_df' = Some(create_summary_table(df))
  /\ trace' = Append(trace, "Aggregated")
  /\ pc' = Follow(pc)
  /\ UNCHANGED <<df, df_rates, raised, genState, csv, OPENAI_API_KEY, dropped, note, pdf,
                 opens, closed_at, SLIDE_NUMBER,
                 stamps, saved, runs>>

\* visualization.create_summary_table_slide(summary_df, pdf)
SummarySlide ==
  /\ pc = P("summary_slide")
  /\ SaveSlide("summary table", "slide", StaticText("Overall Email Marketing KPIs"),
               summary_df)
  /\ pc' = Follow(pc)
  /\ UNCHANGED <<kpiState, genState, csv, OPENAI_API_KEY, dropped, note, opens, closed_at,
                 runs>>

\* df_rates = analysis.compute_rate_columns(df); its KeyError leaves the
\* with block, which closes the document, and then main
ComputeRates ==
  /\ pc = P("rate_columns")
  /\ LET res == compute_rate_columns(df)
     IN  IF res.raised # None
         THEN /\ raised' = res.raised
              /\ closed_at' = ExitOnException(closed_at, pdf)
              /\ trace' = Append(trace, "Closed")
              /\ pc' = P("raised")
              /\ UNCHANGED df_rates
         ELSE /\ df_rates' = res.value
              /\ trace' = Append(trace, "RatesComputed")
              /\ pc' = Follow(pc)
              /\ UNCHANGED <<raised, closed_at>>
  /\ UNCHANGED <<df, summary_df, genState, csv, OPENAI_API_KEY, dropped, note, pdf, opens,
                 SLIDE_NUMBER,
                 stamps, saved, runs>>

\* create_correlation_heatmap, up to the first savefig
HeatmapChart ==
  /\ pc = P("heatmap_chart")
  /\ SaveSlide("correlation matrix", "chart",
               StaticText("Correlation Heatmap for Key Email Marketing Rates"),
               Some(RateColumns(df_rates[1])))
  /\ pc' = Follow(pc)
  /\ UNCHANGED <<kpiState, genState, csv, OPENAI_API_KEY, dropped, note, opens, closed_at,
                 runs>>

\* create_correlation_heatmap, from generate_full_explanation on
HeatmapText ==
  /\ pc = P("heatmap_text")
  /\ \E out \in Outcomes(3) :
       LET ctx == CorrelationData(df_rates[1])
           res == generate_full_explanation(client, ctx, "Heatmap", out)
       IN  /\ Narrated("explain", ctx, "Heatmap", res)
           /\ SaveSlide("correlation matrix", "narrative", res.text, None)
  /\ pc' = Follow(pc)
  /\ UNCHANGED <<kpiState, client, csv, OPENAI_API_KEY, dropped, note, opens, closed_at,
                 runs>>

\* create_distribution_histogram, up to the first savefig
HistChart ==
  /\ pc.step = "hist_chart"
  /\ SaveSlide(HistMetrics[pc.metric], "chart", StaticText("Distribution of"),
               DistributionSummary(df_rates[1], HistMetrics[pc.metric]))
  /\ pc' = Follow(pc)
  /\ UNCHANGED <<kpiState, genState, csv, OPENAI_API_KEY, dropped, note, opens, closed_at,
                 runs>>

\* create_distribution_histogram, from generate_full_explanation on
HistText ==
  /\ pc.step = "hist_text"
  /\ \E out \in Outcomes(3) :
       LET metric == HistMetrics[pc.metric]
           ctx == DistributionSummary(df_rates[1], metric)
           res == generate_full_explanation(client, ctx, HistogramType[metric], out)
       IN  /\ Narrated("explain", ctx, HistogramType[metric], res)
           /\ SaveSlide(metric, "narrative", res.text, None)
  /\ pc' = Follow(pc)
  /\ UNCHANGED <<kpiState, client, csv, OPENAI_API_KEY, dropped, note, opens, closed_at,
                 runs>>

\* visualization.create_overall_conclusion(summary_df, pdf, client)
Conclusion ==
  /\ pc = P("conclusion")
  /\ \E out \in Outcomes(2) :
       LET res == overall_conclusion(client, summary_df, out)
       IN  /\ Narrated("conclude", summary_df, "", res)
           /\ SaveSlide("final conclusion", "narrative", res.text, None)
  /\ pc' = Follow(pc)
  /\ UNCHANGED <<kpiState, client, csv, OPENAI_API_KEY, dropped, note, opens, closed_at,
                 runs>>

\* the end of the with block: PdfPages.__exit__ closes the document
ClosePdf ==
  /\ pc = P("close_pdf")
  /\ closed_at' = Append(closed_at, Len(pdf))
  /\ trace' = Append(trace, "Closed")
  /\ pc' = Follow(pc)
  /\ UNCHANGED <<kpiState, genState, csv, OPENAI_API_KEY, dropped, note, pdf, opens,
                 SLIDE_NUMBER,
                 stamps, saved, runs>>

\* a call inside the with block (plotting, image export, savefig) raises:
\* the statement appends nothing, the with block closes the document, and
\* the exception leaves main
BodyRaises ==
  /\ pc.step \in BodySteps
  /\ raised' = Some([exc |-> "Exception", arg |-> pc.step])
  /\ closed_at' = ExitOnException(closed_at, pdf)
  /\ trace' = Append(trace, "Closed")
  /\ pc' = P("raised")
  /\ UNCHANGED <<df, summary_df, df_rates, genState, csv, OPENAI_API_KEY, dropped, note,
                 pdf, opens, SLIDE_NUMBER,
                 stamps, saved, runs>>

\* pdf.savefig(fig) raises, after add_slide_number(fig) has numbered the
\* figure and moved the counter: no page is appended, the with block closes
\* the document, and the exception leaves main. A narrative statement has
\* asked for its narrative by then.
SavefigRaises ==
  /\ pc.step \in SlideSteps
  /\ SLIDE_NUMBER' = add_slide_number(SLIDE_NUMBER)
  /\ stamps' = Append(stamps, SLIDE_NUMBER)
  /\ raised' = Some([exc |-> "Exception", arg |-> "savefig"])
  /\ closed_at' = ExitOnException(closed_at, pdf)
  /\ trace' = Append(trace, "Closed")
  /\ pc' = P("raised")
  /\ CASE pc.step = "heatmap_text" ->
            \E out \in Outcomes(3) :
              LET ctx == CorrelationData(df_rates[1])
              IN  Narrated("explain", ctx, "Heatmap",
                           generate_full_explanation(client, ctx, "Heatmap", out))
       [] pc.step = "hist_text" ->
            \E out \in Outcomes(3) :
              LET metric == HistMetrics[pc.metric]
                  ctx == DistributionSummary(df_rates[1], metric)
              IN  Narrated("explain", ctx, HistogramType[metric],
                           generate_full_explanation(client, ctx, HistogramType[metric], out))
       [] pc.step = "conclusion" ->
            \E out \in Outcomes(2) :
              Narrated("conclude", summary_df, "", overall_conclusion(client, summary_df, out))
       [] OTHER -> UNCHANGED <<reqs, texts, calls>>
  /\ UNCHANGED <<df, summary_df, df_rates, client, csv, OPENAI_API_KEY, dropped, note, pdf,
                 opens, saved, runs>>

MainNext ==
  \/ InitClient \/ ReadCsv \/ DropColumns \/ OpenPdf
  \/ TitleSlide \/ DefinitionsSlide \/ NoteSlide
  \/ SummaryTable \/ SummarySlide \/ ComputeRates
  \/ HeatmapChart \/ HeatmapText \/ HistChart \/ HistText
  \/ Conclusion \/ ClosePdf \/ BodyRaises \/ SavefigRaises

SpecMain == MainInit /\ [][MainNext]_vars

\* main has ended: normally, by the return after a failed read, or by an exception
Ended == pc.step \in {"done", "returned", "raised"}
Completed == pc.step = "done"

(* ---------------------------- C4 --------------------------------------- *)
\* C4: a run that read its input closes the document exactly once, after
\* the last page appended and with no page appended afterwards, also when
\* a statement of the with block raised; a run that could not read its
\* input opens no document and appends no page.
C4_ClosedExactlyOnce ==
  /\ Len(closed_at) <= 1 /\ opens <= 1
  /\ closed_at # <<>> => (opens = 1 /\ closed_at[1] = Len(pdf) /\ Ended)
  /\ pdf # <<>> => opens = 1
  /\ (Ended /\ csv.readable) => (opens = 1 /\ Len(closed_at) = 1)
  /\ ~csv.readable => (opens = 0 /\ pdf = <<>> /\ closed_at = <<>>)

\* a run whose rate computation raised after four pages, closed once at page four
C4_Witness ==
  /\ pc = P("raised")
  /\ raised # None /\ raised[1].exc = "KeyError"
  /\ Len(pdf) = 4
  /\ closed_at = <<4>>

(* ---------------------------- C5 --------------------------------------- *)
ExpectedSlides ==
  << <<"title", "slide">>, <<"definitions", "slide">>, <<"dropped-columns note", "slide">>,
     <<"summary table", "slide">>,
     <<"correlation matrix", "chart">>, <<"correlation matrix", "narrative">>,
     <<"Delivery Rate", "chart">>, <<"Delivery Rate", "narrative">>,
     <<"Open Rate", "chart">>, <<"Open Rate", "narrative">>,
     <<"Click Rate", "chart">>, <<"Click Rate", "narrative">>,
     <<"Bounce Rate", "chart">>, <<"Bounce Rate", "narrative">>,
     <<"Unsubscribe Rate", "chart">>, <<"Unsubscribe Rate", "narrative">>,
     <<"final conclusion", "narrative">> >>

SlideKinds == [k \in 1..Len(pdf) |-> <<pdf[k].subject, pdf[k].kind>>]

\* C5: a run whose input lacks some of the six counter columns, and in which
\* no library call failed, ends without an exception, with the rates
\* computed and every slide of the pipeline emitted.
C5_MissingColumnsTolerated ==
  ( /\ csv.readable /\ ~(Counters \subseteq csv.table.cols)
    /\ Ended
    /\ (raised = None \/ raised[1].exc = "KeyError") )
  => (raised = None /\ df_rates # None /\ SlideKinds = ExpectedSlides)

(* ---------------------------- C6 --------------------------------------- *)
NoCallMade == \A i \in 1..Len(calls) : calls[i] = <<>>

\* C6 as stated: without the credential no external call is made, every
\* narrative slide carries the same placeholder text, and the run that read
\* its input closes the document.
C6_SamePlaceholderEverywhere ==
  OPENAI_API_KEY = "" =>
    /\ NoCallMade
    /\ \A k \in 1..Len(pdf) : pdf[k].kind = "narrative" => pdf[k].text = NoExplanation
    /\ (Ended /\ csv.readable) => Len(closed_at) = 1

\* C6 (amended): without the credential no external call is made, the
\* narrative slide of the correlation and of each distribution carries the
\* explanation placeholder, the conclusion slide carries the conclusion
\* placeholder, and the run that read its input closes the document.
C6_PlaceholdersWithoutClient ==
  OPENAI_API_KEY = "" =>
    /\ ~client
    /\ NoCallMade
    /\ \A k \in 1..Len(pdf) :
         pdf[k].kind = "narrative" =>
           pdf[k].text = (IF pdf[k].subject = "final conclusion"
                          THEN [lit |-> "AI client not available. No overall conclusion generated.",
                                parts |-> <<>>]
                          ELSE [lit |-> "AI client not available. No explanation generated.",
                                parts |-> <<>>])
    /\ (Ended /\ csv.readable) => Len(closed_at) = 1
    /\ Completed => Cardinality({k \in 1..Len(pdf) : pdf[k].kind = "narrative"}) = 7

\* a completed run without the credential
C6_Witness ==
  /\ OPENAI_API_KEY = ""
  /\ Completed
  /\ Len(reqs) = 7
  /\ pdf[Len(pdf)].text.lit = "AI client not available. No overall conclusion generated."
  /\ pdf[6].text.lit = "AI client not available. No explanation generated."

(* ---------------------------- C8 --------------------------------------- *)
SeqSet(q) == {q[i] : i \in 1..Len(q)}

\* C8: once the columns are normalized, the table has lost exactly the
\* denylist columns the input had and nothing else, the note names exactly
\* the columns dropped (or says that none were), and no dropped column is in
\* the table, the summary or the rate table computed afterwards.
C8_DropsExactlyDenylist ==
  (Len(trace) >= 2) =>
    /\ df.cols = csv.table.cols \ {"Forwards", "Marked as spam"}
    /\ Len(df.rows) = Len(csv.table.rows)
    /\ \A i \in 1..Len(df.rows) : \A c \in df.cols : df.rows[i][c] = csv.table.rows[i][c]
    /\ SeqSet(dropped) = csv.table.cols \cap {"Forwards", "Marked as spam"}
    /\ Len(dropped) = Cardinality(SeqSet(dropped))
    /\ IF dropped = <<>>
       THEN note = [lit |-> "Note: No negligible metrics were dropped.", parts |-> <<>>]
       ELSE /\ note.lit = "Note: The following metrics were dropped due to negligible impact:"
            /\ note.parts = dropped
    /\ \A k \in 1..Len(pdf) : pdf[k].subject = "dropped-columns note" => pdf[k].text = note
    /\ df_rates # None =>
         /\ df_rates[1].cols \cap {"Forwards", "Marked as spam"} = {}
         /\ \A i \in 1..Len(df_rates[1].rows) :
              DOMAIN df_rates[1].rows[i] \cap {"Forwards", "Marked as spam"} = {}
    /\ summary_df # None =>
         \A i \in 1..Len(summary_df[1]) :
           summary_df[1][i].Metric \notin {"Forwards", "Marked as spam"}

\* a completed run on an input that had both denylist columns
C8_Witness ==
  /\ Completed
  /\ {"Forwards", "Marked as spam"} \subseteq csv.table.cols
  /\ Len(df.rows) > 0
  /\ pdf[3].text.parts = <<"Forwards", "Marked as spam">>

(* ---------------------------- C9 --------------------------------------- *)
Count(q, e) == Cardinality({i \in 1..Len(q) : q[i] = e})
IsPrefix(a, b) == Len(a) <= Len(b) /\ \A i \in 1..Len(a) : a[i] = b[i]

\* C9 as stated: the aggregation and the rate computation have both run,
\* once each, before the first slide is appended.
C9_KpisBeforeFirstSlide ==
  pdf # <<>> => (Count(trace, "Aggregated") = 1 /\ Count(trace, "RatesComputed") = 1)

\* the events of a run that completes
FullTrace ==
  <<"Loaded", "ColumnsNormalized", "Slide", "Slide", "Slide", "Aggregated", "Slide",
    "RatesComputed">> \o [k \in 1..13 |-> "Slide"] \o <<"Closed">>

\* C9 (amended): Loaded, ColumnsNormalized, Aggregated, RatesComputed and
\* Closed are passed in that order, none twice, with the slides in between:
\* three slides before the aggregation, the summary slide between the
\* aggregation and the rate computation, the other thirteen after it. A run
\* that completes passes them all; a run that raises goes to Closed from
\* where it is.
C9_StagesInterleaved ==
  /\ \/ IsPrefix(trace, FullTrace)
     \/ /\ trace # <<>> /\ trace[Len(trace)] = "Closed"
        /\ IsPrefix(SubSeq(trace, 1, Len(trace) - 1), FullTrace)
  /\ Completed => trace = FullTrace
  /\ Count(trace, "Closed") = Len(closed_at)
  /\ Count(trace, "Slide") = Len(pdf)
  /\ Count(trace, "Aggregated") = Len(summary_df)
  /\ Count(trace, "RatesComputed") = Len(df_rates)

\* a completed run
C9_Witness ==
  /\ Completed
  /\ summary_df # None /\ df_rates # None
  /\ Len(trace) = 22

(* ---------------------------- C10 -------------------------------------- *)
\* C10: the pages are always a prefix of the fixed order (title, definitions,
\* note, summary table, correlation chart and narrative, the five
\* distributions in the order Delivery, Open, Click, Bounce, Unsubscribe each
\* as chart then narrative, conclusion); no page appended is ever missing;
\* a run that completes has all 17, whether or not a client is configured
\* and whichever of its calls fail.
C10_SlidesInFixedOrder ==
  /\ IsPrefix(SlideKinds, ExpectedSlides)
  /\ Count(trace, "Slide") = Len(pdf)
  /\ Completed => Len(pdf) = 17

\* a completed run with a client, two of whose calls failed
C10_Witness ==
  /\ Completed
  /\ client
  /\ Failed(calls) = 2
  /\ Len(pdf) = 17

(* ---------------------------- one process, main called twice ---------- *)
\* the input files of the runs of one process: one that cannot be read, the
\* largest sample table, and that table without its Sent column
ProcessFiles ==
  {[readable |-> FALSE, table |-> EmptyTable]}
  \cup {[readable |-> TRUE,
         table |-> [cols |-> cs,
                    rows |-> [i \in 1..PipeRows |-> [c \in cs |-> SampleRow(i)[c]]]]] :
        cs \in {AllColumns, AllColumns \ {"Sent"}}}

ProcInit ==
  /\ csv \in ProcessFiles
  /\ OPENAI_API_KEY \in ApiKeys
  /\ pc = MainOrder[1]
  /\ df = EmptyTable /\ summary_df = None /\ df_rates = None /\ raised = None
  /\ client = FALSE /\ reqs = <<>> /\ texts = <<>> /\ calls = <<>>
  /\ dropped = <<>> /\ note = StaticText("")
  /\ pdf = <<>> /\ opens = 0 /\ closed_at = <<>>
  /\ SLIDE_NUMBER = FirstSlideNumber
  /\ trace = <<>>
  /\ stamps = <<>> /\ saved = <<>> /\ runs = 0

\* main() is called a second time in the process that has run it: its locals and a
\* new document start afresh, the module globals utils.SLIDE_NUMBER and
\* main.OPENAI_API_KEY stay
CallMainAgain ==
  /\ Ended
  /\ runs = 0
  /\ runs' = runs + 1
  /\ csv' \in ProcessFiles
  /\ pc' = MainOrder[1]
  /\ df' = EmptyTable /\ summary_df' = None /\ df_rates' = None /\ raised' = None
  /\ client' = FALSE /\ reqs' = <<>> /\ texts' = <<>> /\ calls' = <<>>
  /\ dropped' = <<>> /\ note' = StaticText("")
  /\ pdf' = <<>> /\ opens' = 0 /\ closed_at' = <<>>
  /\ trace' = <<>>
  /\ UNCHANGED <<OPENAI_API_KEY, SLIDE_NUMBER, stamps, saved>>

ProcNext == MainNext \/ CallMainAgain

SpecProcess == ProcInit /\ [][ProcNext]_vars

(* ---------------------------- C11 -------------------------------------- *)
\* the numbers stamped whose figure never became a page
LostNumbers == Len(stamps) - Len(saved)
SaveFailed == raised = Some([exc |-> "Exception", arg |-> "savefig"])

\* C11 as stated: at every point of the process the counter is the number
\* of slides appended so far plus one, and the k-th slide appended bears
\* number k
C11_CounterIsPagesPlusOne ==
  /\ SLIDE_NUMBER = Len(saved) + 1
  /\ \A k \in 1..Len(saved) : saved[k] = k

\* C11: at every point of a process whose counter started at 1, the counter
\* is the number of add_slide_number calls so far plus one and the k-th call
\* stamped number k, also across a second call of main, which resets
\* nothing; every page appended bears one of the numbers stamped, the
\* numbers of the pages appended strictly increase, and the pages of one
\* document are numbered consecutively from the counter's value when the
\* run began. A number is lost, stamped on a figure that never became a
\* page, only where pdf.savefig raised, which ends the run: at most one per
\* run, and while none is lost the k-th page appended bears number k
C11_NumbersNeverReused ==
  /\ SLIDE_NUMBER = FirstSlideNumber + Len(stamps)
  /\ \A k \in 1..Len(stamps) : stamps[k] = FirstSlideNumber + k - 1
  /\ \A k \in 1..Len(saved) : \E j \in 1..Len(stamps) : saved[k] = stamps[j]
  /\ \A i, j \in 1..Len(saved) : i < j => saved[i] < saved[j]
  /\ Len(pdf) <= Len(saved)
  /\ \A k \in 1..Len(pdf) :
       /\ pdf[k].number = saved[Len(saved) - Len(pdf) + k]
       /\ pdf[k].number = pdf[1].number + k - 1
  /\ LostNumbers >= 0
  /\ LostNumbers <= runs + (IF SaveFailed THEN 1 ELSE 0)
  /\ LostNumbers = 0 =>
       /\ SLIDE_NUMBER = Len(saved) + 1
       /\ \A k \in 1..Len(saved) : saved[k] = k

\* the second run of a process whose first run lost a number to a failed
\* save: its document has pages, numbered on from the first run's
C11_Witness ==
  /\ runs = 1
  /\ LostNumbers = 1
  /\ ~SaveFailed
  /\ Len(pdf) >= 2
  /\ Len(saved) > Len(pdf)
  /\ pdf[1].number = saved[Len(saved) - Len(pdf)] + 2

====
